---- MODULE Spec2Model ----
(***************************************************************************)
(* Model of src/app.py: the SOTA island-award leaderboard script.          *)
(* The script fetches the GM/SI summit list, fetches every summit's        *)
(* activations, resolves user ids to callsigns, builds                     *)
(*   activations_by_year : year -> callsign -> set of summit codes         *)
(* and renders a current-year summary and a top-2-per-year table.          *)
(***************************************************************************)
EXTENDS Integers, Sequences, FiniteSets, TLC

----------------------------------------------------------------------------
(* Bounds of the model *)

\* longest activation list one summit's fetch returns
MaxActs == 2
\* number of get_callsign calls explored by the lookup-only specification
MaxCalls == 3

----------------------------------------------------------------------------
(* Python values *)

\* Python's None where a str is expected (JSON null or an absent key read
\* with dict.get); it is distinct from every str, the empty one included.
PyNone == "<None>"
\* Python's None where a user id (a JSON number) is expected.
NoUserId == -1

IsStr(v) == v # PyNone

Range(s) == {s[i] : i \in DOMAIN s}

----------------------------------------------------------------------------
(* The remote data the model draws from *)

\* Summit codes, listed in ascending (lexicographic) string order.
CodeSeq == <<"GM/SI-001", "GM/SI-002">>
Codes == Range(CodeSeq)
CodeRank(c) == CHOOSE i \in DOMAIN CodeSeq : CodeSeq[i] = c
SummitName(c) == IF c = "GM/SI-001" THEN "Isle A" ELSE "Isle B"
Summit(c) == [summitCode |-> c, name |-> SummitName(c)]

\* Every list of distinct summits of the region, in every order.
SummitLists ==
    {s \in UNION {[1..n -> Codes] : n \in 0..Len(CodeSeq)} :
        \A i, j \in DOMAIN s : i # j => s[i] # s[j]}

\* GET /api/regions/GM/SI : 200 with a "summits" array, or an HTTP error.
SummitsResponses ==
    {[status_code |-> 200, summits |-> [i \in DOMAIN s |-> Summit(s[i])]] :
        s \in SummitLists}
    \cup {[status_code |-> 503, summits |-> <<>>]}

UserIds == {7, 9, 11}

\* Activation objects as the activations API returns them (the two fields
\* the script reads).  activationDate and userId are both optional.
ActivationRecords ==
    { [activationDate |-> "2024-05-01", userId |-> 7],
      [activationDate |-> "2023-01-01", userId |-> 7],
      [activationDate |-> "2024-06-01", userId |-> 9],
      [activationDate |-> "2024-05-01", userId |-> 11],
      [activationDate |-> PyNone,       userId |-> 7],
      [activationDate |-> "2024-05-01", userId |-> NoUserId],
      [activationDate |-> "garbage",    userId |-> NoUserId] }

ActivationLists == UNION {[1..n -> ActivationRecords] : n \in 0..MaxActs}

\* GET /api/activations/{summitCode} : 200 with a JSON array, or an error.
ActivationsResponses ==
    {[status_code |-> 200, json |-> l] : l \in ActivationLists}
    \cup {[status_code |-> 500, json |-> <<>>]}

\* GET sotl.as/api/activators/{userId}.  sent = FALSE is a request that
\* failed before any response (requests.get raises).  has_callsign tells
\* whether the JSON object has the key; callsign is its value (PyNone for
\* JSON null).
LookupResponse(sent, status, has, cs) ==
    [sent |-> sent, status_code |-> status, has_callsign |-> has, callsign |-> cs]

LookupResponses ==
    { LookupResponse(TRUE, 200, TRUE, "MM0ABC"),
      LookupResponse(TRUE, 200, TRUE, "MM0XYZ"),
      LookupResponse(TRUE, 200, TRUE, ""),
      LookupResponse(TRUE, 200, TRUE, PyNone),
      LookupResponse(TRUE, 200, FALSE, PyNone),
      LookupResponse(TRUE, 404, FALSE, PyNone),
      LookupResponse(FALSE, 0, FALSE, PyNone) }

\* The activator database the pipeline runs against.
Activators(user_id) ==
    CASE user_id = 7 -> LookupResponse(TRUE, 200, TRUE, "MM0ABC")
      [] user_id = 9 -> LookupResponse(TRUE, 200, TRUE, "MM0XYZ")
      [] OTHER       -> LookupResponse(TRUE, 404, FALSE, PyNone)

\* What datetime.now().year gives: the runs are taken in 2024.
CurrentYears == {2024}

----------------------------------------------------------------------------
(* Pure helpers of the script *)

\* response.raise_for_status(): raises HTTPError for a 4xx/5xx status.
\* (faulty variant: the status is never looked at)
NeverRaises(status_code) == FALSE

RaisesForStatus(status_code) == status_code >= 400

\* `if not date`: None and the empty string are both falsy.
\* (faulty variant: only the empty string is tested, None is let through)
NotDateEmptyOnly(date) == date = ""

NotDate(date) == date = PyNone \/ date = ""

\* datetime.fromisoformat(date): the parsed date, year 0 standing for the
\* ValueError it raises on a string that is not ISO-8601.
fromisoformat(date) ==
    CASE date = "2024-05-01" -> [year |-> 2024, month |-> 5, day |-> 1]
      [] date = "2024-06-01" -> [year |-> 2024, month |-> 6, day |-> 1]
      [] date = "2023-01-01" -> [year |-> 2023, month |-> 1, day |-> 1]
      [] OTHER               -> [year |-> 0, month |-> 0, day |-> 0]

RaisesValueError(date) == fromisoformat(date).year = 0

\* What get_callsign's body does with a response that arrived.
get_callsign_body(resp) ==
    IF resp.status_code = 200
    THEN IF resp.has_callsign THEN resp.callsign ELSE "Unknown"
    ELSE "Unknown"

----------------------------------------------------------------------------
(* activations_by_year: defaultdict(lambda: defaultdict(set)).             *)
(* A Python dict keeps insertion order, and the analytics iterate it, so   *)
(* the model keeps the (year, callsign) entries as a sequence in the order *)
(* in which they were created: the order of activations_by_year[y].items() *)
(* is that of the entries of year y.                                       *)

HasEntry(index, year, callsign) ==
    \E i \in DOMAIN index : index[i].year = year /\ index[i].callsign = callsign

\* (faulty variant: the set is assigned, not added to)
AddReplacing(index, year, callsign, summit_code) ==
    IF HasEntry(index, year, callsign)
    THEN [i \in DOMAIN index |->
            IF index[i].year = year /\ index[i].callsign = callsign
            THEN [index[i] EXCEPT !.summits = {summit_code}]
            ELSE index[i]]
    ELSE Append(index, [year |-> year, callsign |-> callsign, summits |-> {summit_code}])

\* activations_by_year[year][callsign].add(summit_code), creating the year
\* and callsign entries on first use
Add(index, year, callsign, summit_code) ==
    IF HasEntry(index, year, callsign)
    THEN [i \in DOMAIN index |->
            IF index[i].year = year /\ index[i].callsign = callsign
            THEN [index[i] EXCEPT !.summits = @ \cup {summit_code}]
            ELSE index[i]]
    ELSE Append(index, [year |-> year, callsign |-> callsign, summits |-> {summit_code}])

\* activations_by_year.keys()
Keys(index) == {index[i].year : i \in DOMAIN index}

\* activations_by_year[year].items(), in insertion order
Items(index, year) ==
    LET OfYear(e) == e.year = year IN SelectSeq(index, OfYear)

\* len(summits_set) of every item
Lens(items) == [i \in DOMAIN items |-> Cardinality(items[i].summits)]

Neg(keys) == [i \in DOMAIN keys |-> 0 - keys[i]]

RECURSIVE SumSeq(_)
SumSeq(s) == IF s = <<>> THEN 0 ELSE s[Len(s)] + SumSeq(SubSeq(s, 1, Len(s) - 1))

\* A stable sort of positions by descending key: the order Python's
\* sorted(..., reverse=True) gives (reverse keeps equal elements in their
\* original order), computed as an insertion sort.
RECURSIVE ArgsortDesc(_)
ArgsortDesc(keys) ==
    IF keys = <<>> THEN <<>>
    ELSE LET n    == Len(keys)
             prev == ArgsortDesc(SubSeq(keys, 1, n - 1))
             ahead == Cardinality({i \in DOMAIN prev : keys[prev[i]] >= keys[n]})
         IN  SubSeq(prev, 1, ahead) \o <<n>> \o SubSeq(prev, ahead + 1, n - 1)

ArgsortAsc(keys) == ArgsortDesc(Neg(keys))

Take(s, perm) == [i \in DOMAIN perm |-> s[perm[i]]]

----------------------------------------------------------------------------
(* Analytics *)

\* (faulty variant: the callsigns are counted, not their summits)
CountCallsigns(items) == Len(items)

\* sum(len(s) for s in activations_by_year[current_year].values())
SumOfLens(items) == SumSeq(Lens(items))

\* list(summits_set): a Python set iterates in an order the program does
\* not control, so every order is a possible one.
ListsOf(S) ==
    {l \in [1..Cardinality(S) -> S] : \A i, j \in DOMAIN l : i # j => l[i] # l[j]}

\* all_summits after the loop that extends it with each callsign's set:
\* the lists it can be.
RECURSIVE AllSummits(_)
AllSummits(items) ==
    IF items = <<>> THEN {<<>>}
    ELSE LET n == Len(items)
         IN  {a \o l : a \in AllSummits(SubSeq(items, 1, n - 1)),
                       l \in ListsOf(items[n].summits)}

Occurrences(l, v) == Cardinality({i \in DOMAIN l : l[i] = v})

\* The values of l that occur most often.
MostFrequent(l) ==
    {v \in Range(l) : \A w \in Range(l) : Occurrences(l, w) <= Occurrences(l, v)}

\* A set of summit codes as an ascending sequence (np.sort on strings).
RECURSIVE SortCodes(_)
SortCodes(S) ==
    IF S = {} THEN <<>>
    ELSE LET least == CHOOSE c \in S : \A d \in S : CodeRank(c) <= CodeRank(d)
         IN  <<least>> \o SortCodes(S \ {least})

\* The values of S in order of first occurrence in l.
RECURSIVE FirstSeen(_, _)
FirstSeen(l, S) ==
    IF l = <<>> THEN <<>>
    ELSE IF l[1] \in S THEN <<l[1]>> \o FirstSeen(Tail(l), S \ {l[1]})
         ELSE FirstSeen(Tail(l), S)

\* (faulty variant: the modes in order of first occurrence, unsorted)
ModeUnsorted(l) == FirstSeen(l, MostFrequent(l))

\* pd.Series(l).mode(): the most frequent values, sorted ascending.
Mode(l) == SortCodes(MostFrequent(l))

\* rows_current: one row per item of activations_by_year[current_year]
RowsCurrent(items) ==
    [i \in DOMAIN items |->
        [Callsign |-> items[i].callsign,
         SummitsActivated |-> Cardinality(items[i].summits)]]

Counts(rows) == [i \in DOMAIN rows |-> rows[i].SummitsActivated]

\* df.sort_values(by="Summits Activated", ascending=False)
SortValuesByCount(rows) == Take(rows, ArgsortDesc(Counts(rows)))

\* (faulty variant: reverse=True left out)
sorted_ascending(activator_data) ==
    LET s == Take(activator_data, ArgsortAsc(Lens(activator_data)))
    IN  SubSeq(s, 1, IF Len(s) < 2 THEN Len(s) ELSE 2)

\* sorted(activator_data.items(), key=lambda x: len(x[1]), reverse=True)[:2]
sorted_activators(activator_data) ==
    LET s == Take(activator_data, ArgsortDesc(Lens(activator_data)))
    IN  SubSeq(s, 1, IF Len(s) < 2 THEN Len(s) ELSE 2)

\* The rows one year appends: rank 1.. over sorted_activators.
YearRows(index, year) ==
    LET top == sorted_activators(Items(index, year))
    IN  [rank \in DOMAIN top |->
            [Year |-> year, Rank |-> rank, Callsign |-> top[rank].callsign,
             SummitsActivated |-> Cardinality(top[rank].summits)]]

\* rows after `for year in sorted(activations_by_year.keys())`
RECURSIVE RowsOfYears(_, _)
RowsOfYears(index, years) ==
    IF years = {} THEN <<>>
    ELSE LET first == CHOOSE y \in years : \A z \in years : y <= z
         IN  YearRows(index, first) \o RowsOfYears(index, years \ {first})

Rows(index) == RowsOfYears(index, Keys(index))

\* pd.DataFrame(rows) has the columns of its rows: none when rows is empty,
\* and sort_values raises KeyError for a column that is not there.
SortRaisesKeyError(rows) == rows = <<>>

\* df.sort_values(by=["Year", "Rank"], ascending=[False, True]), as the
\* lexicographic sort it is: stably by Rank, then stably by Year.
SortValuesTop(rows) ==
    LET byRank == Take(rows, ArgsortAsc([i \in DOMAIN rows |-> rows[i].Rank]))
    IN  Take(byRank, ArgsortDesc([i \in DOMAIN byRank |-> byRank[i].Year]))

\* (faulty variant: idx / total)
FractionFromIdx(idx, total) == <<idx, total>>

\* (idx + 1) / total as the pair <<numerator, denominator>>
Fraction(idx, total) == <<idx + 1, total>>
----------------------------------------------------------------------------
(* get_callsign, with st.cache_data's memoisation by user id *)

\* requests.get(url) raises when no response arrives; nothing catches it.
\* A memoised user id sends no request.
get_callsign_raises(cache, user_id, resp) ==
    user_id \notin DOMAIN cache /\ ~resp.sent

get_callsign(cache, user_id, resp) ==
    IF user_id \in DOMAIN cache THEN cache[user_id] ELSE get_callsign_body(resp)

CacheAfter(cache, user_id, resp) ==
    IF user_id \in DOMAIN cache \/ ~resp.sent THEN cache
    ELSE cache @@ (user_id :> get_callsign_body(resp))

NoLookup == [user_id |-> NoUserId, cached |-> FALSE,
             response |-> LookupResponse(FALSE, 0, FALSE, PyNone)]

----------------------------------------------------------------------------
(* State *)

VARIABLES
    pc,                 \* where the script is
    error,              \* the uncaught exception that ended the run, or ""
    response_status,    \* status code of the last summit/activation fetch
    summits,            \* fetch_summits()
    total,              \* len(summits)
    idx,                \* enumerate's index of the summit being processed
    activations,        \* fetch_activations(summit_code) of that summit
    pos,                \* position of the inner loop in activations
    activations_by_year,
    fetch_activations_cache,  \* st.cache_data of fetch_activations
    get_callsign_cache,       \* st.cache_data of get_callsign
    n_lookups,          \* calls of get_callsign so far
    lookup,             \* the last call of get_callsign
    callsign,           \* what that call returned
    progress,           \* the fractions given to progress.progress, in order
    current_year,
    rendered,           \* the outputs written to the page
    total_activations,
    most_common_code,
    df_current,
    df_top

vars == <<pc, error, response_status, summits, total, idx, activations, pos,
          activations_by_year, fetch_activations_cache, get_callsign_cache,
          n_lookups, lookup, callsign, progress, current_year, rendered,
          total_activations, most_common_code, df_current, df_top>>

loopVars == <<summits, total, idx, activations, pos, activations_by_year,
              fetch_activations_cache, progress>>
lookupVars == <<get_callsign_cache, n_lookups, lookup, callsign>>
outVars == <<current_year, rendered, total_activations, most_common_code,
             df_current, df_top>>

Init ==
    /\ pc = "fetch_summits"
    /\ error = ""
    /\ response_status = 0
    /\ summits = <<>>
    /\ total = 0
    /\ idx = 0
    /\ activations = <<>>
    /\ pos = 1
    /\ activations_by_year = <<>>
    /\ fetch_activations_cache = <<>>
    /\ get_callsign_cache = <<>>
    /\ n_lookups = 0
    /\ lookup = NoLookup
    /\ callsign = PyNone
    /\ progress = <<>>
    /\ current_year = 0
    /\ rendered = {}
    /\ total_activations = 0
    /\ most_common_code = PyNone
    /\ df_current = <<>>
    /\ df_top = <<>>

----------------------------------------------------------------------------
(* The script, top to bottom *)

\* summits = fetch_summits(); total = len(summits)
FetchSummits ==
    /\ pc = "fetch_summits"
    /\ \E resp \in SummitsResponses :
        /\ response_status' = resp.status_code
        /\ IF RaisesForStatus(resp.status_code)
           THEN /\ pc' = "error"
                /\ error' = "HTTPError"
                /\ UNCHANGED <<summits, total>>
           ELSE /\ summits' = resp.summits
                /\ total' = Len(resp.summits)
                /\ pc' = "for_summit"
                /\ UNCHANGED error
    /\ UNCHANGED <<idx, activations, pos, activations_by_year,
                   fetch_activations_cache, progress>>
    /\ UNCHANGED <<lookupVars, outVars>>

\* for idx, summit in enumerate(summits): activations = fetch_activations(code)
FetchActivations ==
    /\ pc = "for_summit"
    /\ idx < total
    /\ LET summit_code == summits[idx + 1].summitCode IN
       IF summit_code \in DOMAIN fetch_activations_cache
       THEN /\ activations' = fetch_activations_cache[summit_code]
            /\ pos' = 1
            /\ pc' = "for_activation"
            /\ UNCHANGED <<error, response_status, fetch_activations_cache>>
       ELSE \E resp \in ActivationsResponses :
            /\ response_status' = resp.status_code
            /\ IF RaisesForStatus(resp.status_code)
               THEN /\ pc' = "error"
                    /\ error' = "HTTPError"
                    /\ UNCHANGED <<activations, pos, fetch_activations_cache>>
               ELSE /\ activations' = resp.json
                    /\ pos' = 1
                    /\ fetch_activations_cache' =
                         fetch_activations_cache @@ (summit_code :> resp.json)
                    /\ pc' = "for_activation"
                    /\ UNCHANGED error
    /\ UNCHANGED <<summits, total, idx, activations_by_year, progress>>
    /\ UNCHANGED <<lookupVars, outVars>>

\* One pass of `for activation in activations` (lines 57-66).
HandleActivation ==
    /\ pc = "for_activation"
    /\ pos <= Len(activations)
    /\ LET activation  == activations[pos]
           summit_code == summits[idx + 1].summitCode
           date        == activation.activationDate
           user_id     == activation.userId
           resp        == Activators(user_id)
       IN
       IF NotDate(date)
       THEN /\ pos' = pos + 1
            /\ UNCHANGED <<pc, error, activations_by_year, lookupVars>>
       ELSE IF RaisesValueError(date)
       THEN /\ pc' = "error"
            /\ error' = "ValueError"
            /\ UNCHANGED <<pos, activations_by_year, lookupVars>>
       ELSE IF user_id = NoUserId
       THEN /\ pos' = pos + 1
            /\ UNCHANGED <<pc, error, activations_by_year, lookupVars>>
       ELSE /\ n_lookups' = n_lookups + 1
            /\ lookup' = [user_id |-> user_id, response |-> resp,
                          cached |-> user_id \in DOMAIN get_callsign_cache]
            /\ IF get_callsign_raises(get_callsign_cache, user_id, resp)
               THEN /\ pc' = "error"
                    /\ error' = "ConnectionError"
                    /\ UNCHANGED <<pos, activations_by_year, callsign,
                                   get_callsign_cache>>
               ELSE /\ callsign' = get_callsign(get_callsign_cache, user_id, resp)
                    /\ get_callsign_cache' =
                         CacheAfter(get_callsign_cache, user_id, resp)
                    /\ activations_by_year' =
                         Add(activations_by_year, fromisoformat(date).year,
                             callsign', summit_code)
                    /\ pos' = pos + 1
                    /\ UNCHANGED <<pc, error>>
    /\ UNCHANGED <<response_status, summits, total, idx, activations,
                   fetch_activations_cache, progress, outVars>>

\* progress.progress((idx + 1) / total), then the next summit
ReportProgress ==
    /\ pc = "for_activation"
    /\ pos > Len(activations)
    /\ IF total = 0
       THEN /\ pc' = "error"
            /\ error' = "ZeroDivisionError"
            /\ UNCHANGED <<progress, idx>>
       ELSE /\ progress' = Append(progress, Fraction(idx, total))
            /\ idx' = idx + 1
            /\ pc' = "for_summit"
            /\ UNCHANGED error
    /\ UNCHANGED <<response_status, summits, total, activations, pos,
                   activations_by_year, fetch_activations_cache>>
    /\ UNCHANGED <<lookupVars, outVars>>

\* The loop is exhausted: the loading UI is removed.
LoopExit ==
    /\ pc = "for_summit"
    /\ idx >= total
    /\ pc' = "summary"
    /\ UNCHANGED <<error, response_status, loopVars, lookupVars, outVars>>

\* Lines 78-135: the current-year summary.
CurrentYearSummary ==
    /\ pc = "summary"
    /\ \E now \in CurrentYears :
        /\ current_year' = now
        /\ IF now \in Keys(activations_by_year)
           THEN LET items == Items(activations_by_year, now) IN
                /\ total_activations' = SumOfLens(items)
                /\ \E all_summits \in AllSummits(items) :
                     IF all_summits # <<>>
                     THEN /\ most_common_code' = Mode(all_summits)[1]
                          /\ rendered' = {"total_activations", "most_common", "df_current"}
                     ELSE /\ most_common_code' = most_common_code
                          /\ rendered' = {"total_activations", "df_current"}
                /\ df_current' = SortValuesByCount(RowsCurrent(items))
           ELSE /\ rendered' = {"no_activations"}
                /\ UNCHANGED <<total_activations, most_common_code, df_current>>
    /\ pc' = "top"
    /\ UNCHANGED <<error, response_status, loopVars, lookupVars, df_top>>

\* Lines 142-163: the top-2-per-year table.
TopActivators ==
    /\ pc = "top"
    /\ LET rows == Rows(activations_by_year) IN
       IF SortRaisesKeyError(rows)
       THEN /\ pc' = "error"
            /\ error' = "KeyError"
            /\ UNCHANGED <<df_top, rendered>>
       ELSE /\ df_top' = SortValuesTop(rows)
            /\ rendered' = rendered \cup {"df_top"}
            /\ pc' = "done"
            /\ UNCHANGED error
    /\ UNCHANGED <<response_status, loopVars, lookupVars, current_year,
                   total_activations, most_common_code, df_current>>

Next ==
    \/ FetchSummits
    \/ FetchActivations
    \/ HandleActivation
    \/ ReportProgress
    \/ LoopExit
    \/ CurrentYearSummary
    \/ TopActivators

Spec == Init /\ [][Next]_vars

----------------------------------------------------------------------------
(* get_callsign on its own: calls with any user id against any answer of   *)
(* the lookup service, sharing the memoisation cache.                      *)

CallGetCallsign ==
    /\ pc = "fetch_summits"
    /\ n_lookups < MaxCalls
    /\ \E user_id \in UserIds, resp \in LookupResponses :
        /\ n_lookups' = n_lookups + 1
        /\ lookup' = [user_id |-> user_id, response |-> resp,
                      cached |-> user_id \in DOMAIN get_callsign_cache]
        /\ IF get_callsign_raises(get_callsign_cache, user_id, resp)
           THEN /\ pc' = "error"
                /\ error' = "ConnectionError"
                /\ UNCHANGED <<callsign, get_callsign_cache>>
           ELSE /\ callsign' = get_callsign(get_callsign_cache, user_id, resp)
                /\ get_callsign_cache' = CacheAfter(get_callsign_cache, user_id, resp)
                /\ UNCHANGED <<pc, error>>
    /\ UNCHANGED <<response_status, loopVars, outVars>>

NextLookup == CallGetCallsign

SpecLookup == Init /\ [][NextLookup]_vars
----------------------------------------------------------------------------
(* The aggregation as a function of the summit order: the loop of lines    *)
(* 53-66 run over a given sequence of summits, with the activation lists   *)
(* and the callsigns the two caches hold.                                  *)

HandleRecord(index, summit_code, activation, callsigns) ==
    IF NotDate(activation.activationDate) \/ activation.userId = NoUserId
    THEN index
    ELSE Add(index, fromisoformat(activation.activationDate).year,
             callsigns[activation.userId], summit_code)

RECURSIVE HandleRecords(_, _, _, _)
HandleRecords(index, summit_code, acts, callsigns) ==
    IF acts = <<>> THEN index
    ELSE HandleRecords(HandleRecord(index, summit_code, Head(acts), callsigns),
                       summit_code, Tail(acts), callsigns)

RECURSIVE BuildIndex(_, _, _)
BuildIndex(summit_seq, fetched, callsigns) ==
    IF summit_seq = <<>> THEN <<>>
    ELSE LET n    == Len(summit_seq)
             code == summit_seq[n].summitCode
         IN  HandleRecords(BuildIndex(SubSeq(summit_seq, 1, n - 1), fetched, callsigns),
                           code, fetched[code], callsigns)

----------------------------------------------------------------------------
(* Vocabulary of the properties, stated on the data and not through the    *)
(* operators above.                                                        *)

WellFormedDates == {"2024-05-01", "2024-06-01", "2023-01-01"}
YearOfDate(d) == IF d = "2023-01-01" THEN 2023 ELSE 2024

\* the summit codes index[year][callsign] holds (empty when there is none)
SummitsOf(index, year, cs) ==
    UNION {index[i].summits :
             i \in {j \in DOMAIN index : index[j].year = year /\ index[j].callsign = cs}}

CallsignsOf(index, year) ==
    {index[i].callsign : i \in {j \in DOMAIN index : index[j].year = year}}

\* all (year, callsign, summit code) memberships
Memberships(index) ==
    UNION {{<<index[i].year, index[i].callsign, s>> : s \in index[i].summits} :
             i \in DOMAIN index}

\* the fetched records that have both a date and a user id, as
\* <<summit code, position>>
CountedRecords ==
    UNION {{<<s, k>> : k \in {m \in DOMAIN fetch_activations_cache[s] :
                /\ fetch_activations_cache[s][m].activationDate \in WellFormedDates
                /\ fetch_activations_cache[s][m].userId \in UserIds}} :
             s \in DOMAIN fetch_activations_cache}

LoopCompleted ==
    \/ pc \in {"summary", "top", "done"}
    \/ pc = "error" /\ error = "KeyError"

Min(a, b) == IF a < b THEN a ELSE b

----------------------------------------------------------------------------
(* C1 *)

\* C1: when the aggregation loop has completed, index[y][c] is exactly the
\* set of codes s with a fetched record of s dated in year y whose user id
\* resolves to c; no (year, callsign) pair has two entries, so a triple is
\* a member once; and the membership count is at most the number of
\* records that have both a date and a user id.
C1_IndexIsExact ==
    LoopCompleted =>
      /\ \A i, j \in DOMAIN activations_by_year :
            (/\ activations_by_year[i].year = activations_by_year[j].year
             /\ activations_by_year[i].callsign = activations_by_year[j].callsign)
            => i = j
      /\ \A i \in DOMAIN activations_by_year : activations_by_year[i].summits # {}
      /\ Memberships(activations_by_year) =
           {<<YearOfDate(fetch_activations_cache[r[1]][r[2]].activationDate),
              get_callsign_cache[fetch_activations_cache[r[1]][r[2]].userId],
              r[1]>> : r \in CountedRecords}
      /\ Cardinality(Memberships(activations_by_year)) <= Cardinality(CountedRecords)

\* a completed run in which one operator holds two summits in a year and
\* repeated activations were collapsed
C1_Witness ==
    /\ LoopCompleted
    /\ \E i \in DOMAIN activations_by_year :
          Cardinality(activations_by_year[i].summits) = 2
    /\ Cardinality(Memberships(activations_by_year)) < Cardinality(CountedRecords)

----------------------------------------------------------------------------
(* C2 *)

AtRecord == pc = "for_activation" /\ pos <= Len(activations)

Skipped ==
    /\ pc' = "for_activation"
    /\ error' = ""
    /\ pos' = pos + 1
    /\ UNCHANGED <<activations_by_year, n_lookups, get_callsign_cache, progress>>

\* C2 as claimed: a record whose date is missing, or whose user id is
\* missing, is skipped without error, lookup or change of the index,
\* whatever its other fields hold.
C2_SkippedWhateverElse ==
    [][ (/\ AtRecord
         /\ \/ activations[pos].activationDate = PyNone
            \/ activations[pos].userId = NoUserId)
        => Skipped ]_vars

\* C2 as amended: a record whose date is missing is skipped whatever its
\* user id; a record whose user id is missing is skipped when its date is
\* missing or parses as ISO-8601.
C2_SkippedWhenDateParses ==
    [][ (/\ AtRecord
         /\ \/ activations[pos].activationDate = PyNone
            \/ /\ activations[pos].userId = NoUserId
               /\ activations[pos].activationDate \in WellFormedDates)
        => Skipped ]_vars

\* a record with a date and no user id has just been passed over, with
\* the index already holding something
C2_Witness ==
    /\ pc = "for_activation"
    /\ pos > 1
    /\ activations[pos - 1].userId = NoUserId
    /\ activations[pos - 1].activationDate \in WellFormedDates
    /\ activations_by_year # <<>>
    /\ error = ""

----------------------------------------------------------------------------
(* C3 *)

\* C3: with an empty summit list the run ends without error, the index is
\* empty and the top-2 table is empty.
C3_EmptyListCompletes ==
    (pc # "fetch_summits" /\ response_status = 200 /\ summits = <<>>)
    => /\ error = ""
       /\ activations_by_year = <<>>
       /\ progress = <<>>
       /\ df_top = <<>>

----------------------------------------------------------------------------
(* C4 *)

RowsOfYear(df, year) == {i \in DOMAIN df : df[i].Year = year}

\* C4: for every year of the index the top-2 table has min(2, callsigns of
\* the year) rows, ranked 1..k, each with the size of its callsign's set;
\* counts do not increase with rank and no callsign left out has more
\* summits than a listed one.
C4_TopTwoPerYear ==
    "df_top" \in rendered =>
      /\ \A i \in DOMAIN df_top : df_top[i].Year \in Keys(activations_by_year)
      /\ \A y \in Keys(activations_by_year) :
           LET R == RowsOfYear(df_top, y)
               all == CallsignsOf(activations_by_year, y)
               k == Min(2, Cardinality(all))
               listed == {df_top[i].Callsign : i \in R}
           IN  /\ Cardinality(R) = k
               /\ {df_top[i].Rank : i \in R} = 1..k
               /\ Cardinality(listed) = k
               /\ listed \subseteq all
               /\ \A i \in R :
                     df_top[i].SummitsActivated =
                        Cardinality(SummitsOf(activations_by_year, y, df_top[i].Callsign))
               /\ \A i, j \in R :
                     df_top[i].Rank < df_top[j].Rank
                     => df_top[i].SummitsActivated >= df_top[j].SummitsActivated
               /\ \A c \in all \ listed : \A i \in R :
                     Cardinality(SummitsOf(activations_by_year, y, c))
                        <= df_top[i].SummitsActivated

\* the table is out for a year with three callsigns, the first of them
\* (in insertion order) with fewer summits than the second
C4_Witness ==
    /\ "df_top" \in rendered
    /\ \E y \in Keys(activations_by_year) :
         LET items == Items(activations_by_year, y)
         IN  /\ Len(items) = 3
             /\ Cardinality(items[1].summits) < Cardinality(items[2].summits)

----------------------------------------------------------------------------
(* C5 *)

YieldsNoCallsign(resp) ==
    \/ ~resp.sent
    \/ resp.status_code # 200
    \/ ~resp.has_callsign
    \/ resp.callsign \in {PyNone, ""}

\* C5: a call of get_callsign that is not served from the cache never
\* raises, returns a string, and returns "Unknown" when the lookup yields
\* no callsign value.
C5_AlwaysAString ==
    (lookup.user_id # NoUserId /\ ~lookup.cached)
    => /\ error = ""
       /\ IsStr(callsign)
       /\ YieldsNoCallsign(lookup.response) => callsign = "Unknown"

----------------------------------------------------------------------------
(* C6 *)

\* C6: once a summit-list or activation fetch has answered with an HTTP
\* error the run has stopped with that error, no output has been rendered,
\* only the summits before the failing one were fetched and nothing more
\* is fetched.
C6_FetchErrorAborts ==
    response_status \notin {0, 200} =>
      /\ pc = "error"
      /\ error = "HTTPError"
      /\ rendered = {}
      /\ df_current = <<>>
      /\ df_top = <<>>
      /\ DOMAIN fetch_activations_cache = {summits[i].summitCode : i \in 1..idx}
      /\ ~ENABLED Next

\* the second summit's fetch failed with the index already partly built
C6_Witness ==
    /\ response_status = 500
    /\ idx = 1
    /\ total = 2
    /\ activations_by_year # <<>>
    /\ pc = "error"

----------------------------------------------------------------------------
(* C7 *)

\* C7: the current-year total is the sum of the table's counts; the table
\* has one row per callsign of the year, with the size of its set, in
\* non-increasing order of count.
C7_TotalMatchesTable ==
    "df_current" \in rendered =>
      LET all == CallsignsOf(activations_by_year, current_year) IN
      /\ "total_activations" \in rendered
      /\ total_activations = SumSeq([i \in DOMAIN df_current |->
                                        df_current[i].SummitsActivated])
      /\ total_activations =
           Cardinality({m \in Memberships(activations_by_year) : m[1] = current_year})
      /\ Len(df_current) = Cardinality(all)
      /\ {df_current[i].Callsign : i \in DOMAIN df_current} = all
      /\ \A i \in DOMAIN df_current :
            df_current[i].SummitsActivated =
               Cardinality(SummitsOf(activations_by_year, current_year,
                                     df_current[i].Callsign))
      /\ \A i, j \in DOMAIN df_current :
            i < j => df_current[i].SummitsActivated >= df_current[j].SummitsActivated

\* the table is out with three operators, one of them holding two summits
\* and inserted after one holding a single summit
C7_Witness ==
    /\ "df_current" \in rendered
    /\ Len(df_current) = 3
    /\ total_activations = 4
    /\ LET items == Items(activations_by_year, current_year)
       IN  Cardinality(items[1].summits) < Cardinality(items[2].summits)

----------------------------------------------------------------------------
(* C8 *)

Holders(index, year, code) ==
    {c \in CallsignsOf(index, year) : code \in SummitsOf(index, year, c)}

MostHeld(index, year) ==
    {s \in Codes :
        /\ Holders(index, year, s) # {}
        /\ \A t \in Codes :
              Cardinality(Holders(index, year, t)) <= Cardinality(Holders(index, year, s))}

\* C8: the most common summit is a code held by the largest number of
\* callsigns of the year, and among those it is the least in string order:
\* a function of the memberships alone.
C8_MostCommonByContent ==
    "most_common" \in rendered =>
      /\ most_common_code \in MostHeld(activations_by_year, current_year)
      /\ \A t \in MostHeld(activations_by_year, current_year) :
            CodeRank(most_common_code) <= CodeRank(t)

\* two codes tie, and the first operator inserted holds only the greater one
C8_Witness ==
    /\ "most_common" \in rendered
    /\ Cardinality(MostHeld(activations_by_year, current_year)) = 2
    /\ Items(activations_by_year, current_year)[1].summits = {CodeSeq[2]}

----------------------------------------------------------------------------
(* C9 *)

\* C9: the k-th progress value is k/total; one value has been emitted per
\* finished summit, after its last record and before the next fetch; the
\* values increase strictly, stay at most 1 and end at 1.
C9_ProgressPerSummit ==
    /\ Len(progress) = idx
    /\ \A k \in DOMAIN progress : progress[k] = <<k, total>>
    /\ \A k \in DOMAIN progress : progress[k][1] <= progress[k][2]
    /\ \A k \in DOMAIN progress :
          k > 1 => progress[k - 1][1] * progress[k][2] < progress[k][1] * progress[k - 1][2]
    /\ pc = "for_activation" =>
          Cardinality(DOMAIN fetch_activations_cache) = Len(progress) + 1
    /\ pc = "for_summit" =>
          /\ Cardinality(DOMAIN fetch_activations_cache) = Len(progress)
          /\ idx > 0 => pos = Len(activations) + 1
    /\ (LoopCompleted /\ total > 0) =>
          /\ Len(progress) = total
          /\ progress[total][1] = progress[total][2]

\* a completed loop over two summits
C9_Witness ==
    /\ LoopCompleted
    /\ progress = << <<1, 2>>, <<2, 2>> >>
    /\ activations_by_year # <<>>

----------------------------------------------------------------------------
(* C10 *)

Reorderings(s) ==
    {[i \in DOMAIN s |-> s[p[i]]] :
        p \in {q \in [DOMAIN s -> DOMAIN s] : \A i, j \in DOMAIN s : i # j => q[i] # q[j]}}

\* C10: run over any reordering of the same summits, with the same
\* activation lists and callsigns, the script builds the same index and
\* the same outputs, the ranks of the top-2 table included.
C10_SummitOrderIrrelevant ==
    pc = "done" =>
      \A s \in Reorderings(summits) :
        LET other == BuildIndex(s, fetch_activations_cache, get_callsign_cache)
            items == Items(other, current_year)
        IN  /\ Memberships(other) = Memberships(activations_by_year)
            /\ "df_current" \in rendered =>
                 /\ SumOfLens(items) = total_activations
                 /\ Range(SortValuesByCount(RowsCurrent(items))) = Range(df_current)
            /\ "most_common" \in rendered =>
                 \A l \in AllSummits(items) : Mode(l)[1] = most_common_code
            /\ SortValuesTop(Rows(other)) = df_top
====
